---- MODULE Spec2Model ----
(***************************************************************************)
(* Model of the client of my-auth-app: the AuthPanel component (login,     *)
(* signup, forgot-password, reset-success), the requests it sends through  *)
(* its axios instance, the `token` key of localStorage and the Dashboard   *)
(* component that reads and removes that key.                              *)
(*                                                                         *)
(* Text values of the form are sequences of one-character strings so that  *)
(* trim(), length and the email pattern are computed, not assumed.         *)
(***************************************************************************)
EXTENDS Integers, Sequences, FiniteSets, TLC

\* ------------------------------------------------------------------ bounds
\* Cap on the number of requests awaiting a response (the code has none).
MaxInflight == 2

\* ------------------------------------------------------- program constants
\* formData.password.length < 6
MinPasswordLength == 6

\* ---------------------------------------------------------- input samples
Space == " "

\* Values typed into the email and resetEmail inputs.
EmailInputs ==
    { <<" ">>,
      <<"b", "a", "d">>,
      <<"a", "@", "b">>,
      <<"a", "@", "b", ".", "c">> }

\* Values typed into the password and confirmPassword inputs.
PasswordInputs ==
    { <<"p", "w", "1", "2", "3">>,
      <<"s", "e", "c", "r", "e", "t">>,
      <<"s", "e", "c", "r", "e", "u">> }

\* Values typed into the name input.
NameInputs == { <<" ">>, <<"n">> }

\* Tokens a 200 response of /auth/login or /auth/register can carry.
Tokens == { "jwt1", "jwt2" }

\* localStorage.getItem('token') === null
NoToken == "null"

\* Server-provided msg values of an error response ("" is an empty msg,
\* AbsentMsg a body without msg).
AbsentMsg == "undefined"
ServerMsgs == { "Invalid credentials" }

\* error.response of a rejected request: none, or a body with/without msg.
NoResponse == "no-response"
ErrorResponses == { NoResponse, AbsentMsg, "" } \cup ServerMsgs

\* The error objects the response interceptor can be handed.
ApiErrors ==
    [ code     : { "ERR_NETWORK", "ECONNABORTED", "ERR_BAD_REQUEST" },
      response : ErrorResponses,
      request  : BOOLEAN ]

Fields == { "name", "email", "password", "confirmPassword", "resetEmail" }

VARIABLES
    activeTab,            \* 'login' | 'signup'
    showForgotPassword,   \* boolean
    formData,             \* field -> text
    errors,               \* field-keyed error map (only the keys present)
    isLoading,            \* boolean
    resetSuccess,         \* boolean
    authError,            \* string, '' when none
    inflight,             \* requests posted and not yet settled
    token,                \* localStorage 'token'
    page,                 \* "auth" (path /) | "dashboard" (path /dashboard)
    user,                 \* Dashboard user state
    loading               \* Dashboard loading state

panel == << activeTab, showForgotPassword, formData, errors, isLoading,
            resetSuccess, authError >>
dash == << user, loading >>
vars == << activeTab, showForgotPassword, formData, errors, isLoading,
           resetSuccess, authError, inflight, token, page, user, loading >>

\* ------------------------------------------------------------ text helpers
IsSpace(c) == c = Space

RECURSIVE TrimStart(_)
TrimStart(s) ==
    IF s = <<>> THEN <<>>
    ELSE IF IsSpace(Head(s)) THEN TrimStart(Tail(s)) ELSE s

RECURSIVE TrimEnd(_)
TrimEnd(s) ==
    IF s = <<>> THEN <<>>
    ELSE IF IsSpace(s[Len(s)]) THEN TrimEnd(SubSeq(s, 1, Len(s) - 1)) ELSE s

\* String.prototype.trim
Trim(s) == TrimEnd(TrimStart(s))

\* /\S+@\S+\.\S+/.test(s): somewhere in s, a non-space run, '@', a non-space
\* run, '.', a non-space run (unanchored).
EmailPatternTest(s) ==
    \E p \in 1..Len(s) : \E q \in 1..Len(s) :
        /\ s[p] = "@"
        /\ s[q] = "."
        /\ p > 1
        /\ ~IsSpace(s[p - 1])
        /\ q >= p + 2
        /\ \A k \in (p + 1)..(q - 1) : ~IsSpace(s[k])
        /\ q < Len(s)
        /\ ~IsSpace(s[q + 1])

\* ----------------------------------------------------------- validateForm
NoError == ""

\* newErrors.resetEmail
ResetEmailError(fd, sfp) ==
    IF ~sfp THEN NoError
    ELSE IF Trim(fd["resetEmail"]) = <<>> THEN "Email is required"
    ELSE IF ~EmailPatternTest(fd["resetEmail"]) THEN "Email is invalid"
    ELSE NoError

\* newErrors.name checked in every mode
NameErrorInEveryMode(fd, sfp, tab) ==
    IF Trim(fd["name"]) = <<>> THEN "Name is required" ELSE NoError

\* newErrors.name
NameError(fd, sfp, tab) ==
    IF ~sfp /\ tab = "signup" /\ Trim(fd["name"]) = <<>>
    THEN "Name is required" ELSE NoError

\* newErrors.confirmPassword compared by length only
ConfirmPasswordErrorByLength(fd, sfp, tab) ==
    IF ~sfp /\ tab = "signup" /\ Len(fd["password"]) # Len(fd["confirmPassword"])
    THEN "Passwords do not match" ELSE NoError

\* newErrors.confirmPassword
ConfirmPasswordError(fd, sfp, tab) ==
    IF ~sfp /\ tab = "signup" /\ fd["password"] # fd["confirmPassword"]
    THEN "Passwords do not match" ELSE NoError

\* newErrors.email without the pattern test
EmailErrorRequiredOnly(fd, sfp) ==
    IF sfp THEN NoError
    ELSE IF Trim(fd["email"]) = <<>> THEN "Email is required"
    ELSE NoError

\* newErrors.email
EmailError(fd, sfp) ==
    IF sfp THEN NoError
    ELSE IF Trim(fd["email"]) = <<>> THEN "Email is required"
    ELSE IF ~EmailPatternTest(fd["email"]) THEN "Email is invalid"
    ELSE NoError

\* newErrors.password with the length test off by one
PasswordErrorOffByOne(fd, sfp) ==
    IF sfp THEN NoError
    ELSE IF fd["password"] = <<>> THEN "Password is required"
    ELSE IF Len(fd["password"]) <= MinPasswordLength
         THEN "Password must be at least 6 characters"
    ELSE NoError

\* newErrors.password
PasswordError(fd, sfp) ==
    IF sfp THEN NoError
    ELSE IF fd["password"] = <<>> THEN "Password is required"
    ELSE IF Len(fd["password"]) < MinPasswordLength
         THEN "Password must be at least 6 characters"
    ELSE NoError

FieldError(f, fd, sfp, tab) ==
    CASE f = "resetEmail"      -> ResetEmailError(fd, sfp)
      [] f = "name"            -> NameError(fd, sfp, tab)
      [] f = "confirmPassword" -> ConfirmPasswordError(fd, sfp, tab)
      [] f = "email"           -> EmailError(fd, sfp)
      [] f = "password"        -> PasswordError(fd, sfp)

\* The newErrors object validateForm builds: only the failing fields are keys.
ValidateForm(fd, sfp, tab) ==
    [ f \in { g \in Fields : FieldError(g, fd, sfp, tab) # NoError }
        |-> FieldError(f, fd, sfp, tab) ]

\* Object.keys(newErrors).length === 0
IsValid(newErrors) == DOMAIN newErrors = {}

NoErrors == [ f \in {} |-> NoError ]

\* ------------------------------------------------------------- rendering
\* {!showForgotPassword && ( tab header )}
TabHeaderRendered == ~showForgotPassword

\* heading 'Reset Password' (else 'Welcome Back' / 'Create Account')
ResetHeadingRendered == showForgotPassword
LoginSignupHeadingRendered == ~showForgotPassword

\* the form rendered next to the 'Email Sent!' panel
FormRenderedAlways == TRUE

\* {resetSuccess ? ( 'Email Sent!' panel ) : ( <form> )}
ResetSuccessPanelRendered == resetSuccess
FormRendered == ~resetSuccess

\* which inputs the form shows
FieldRendered(f) ==
    /\ FormRendered
    /\ IF f = "resetEmail" THEN showForgotPassword
       ELSE IF f \in { "name", "confirmPassword" }
            THEN ~showForgotPassword /\ activeTab = "signup"
       ELSE ~showForgotPassword

\* submit button without the disabled attribute
SubmitNeverDisabled == FormRendered

\* <button type="submit" disabled={isLoading}>
SubmitEnabled == FormRendered /\ ~isLoading

\* forgot-password link shown on both tabs
ForgotLinkOnBothTabs == ~showForgotPassword /\ ~resetSuccess

\* 'Forgot your password?' link
ForgotLinkRendered == ~showForgotPassword /\ ~resetSuccess /\ activeTab = "login"

\* inline 'Register' / 'Sign In' toggle
InlineToggleRendered == ~showForgotPassword /\ ~resetSuccess

\* '<- Back to Login' link under the forgot-password form
BackLinkRendered == showForgotPassword /\ ~resetSuccess

\* The view on screen, by what is rendered.
LoginViewRendered ==
    TabHeaderRendered /\ LoginSignupHeadingRendered /\ activeTab = "login"
SignupViewRendered ==
    TabHeaderRendered /\ LoginSignupHeadingRendered /\ activeTab = "signup"
ForgotPasswordViewRendered == ResetHeadingRendered /\ FormRendered
ResetSuccessViewRendered == ResetSuccessPanelRendered

\* ------------------------------------------------------ response handling
Truthy(m) == m # "" /\ m # AbsentMsg

\* error.response.data?.msg
ResponseMsg(error) ==
    IF error.response = NoResponse THEN AbsentMsg ELSE error.response

\* interceptor testing error.response before error.code
CustomMessageResponseFirst(error) ==
    IF error.response # NoResponse
    THEN IF Truthy(ResponseMsg(error)) THEN ResponseMsg(error)
         ELSE "Server error occurred."
    ELSE IF error.code = "ERR_NETWORK"
    THEN "Unable to connect to the server. Please make sure the backend is running."
    ELSE IF error.code = "ECONNABORTED"
    THEN "Request timed out. Please try again."
    ELSE IF error.request
    THEN "No response from server. Please check your network connection."
    ELSE "An error occurred while processing your request."

\* api.interceptors.response, rejected branch: error.customMessage
CustomMessage(error) ==
    IF error.code = "ERR_NETWORK"
    THEN "Unable to connect to the server. Please make sure the backend is running."
    ELSE IF error.code = "ECONNABORTED"
    THEN "Request timed out. Please try again."
    ELSE IF error.response # NoResponse
    THEN IF Truthy(ResponseMsg(error)) THEN ResponseMsg(error)
         ELSE "Server error occurred."
    ELSE IF error.request
    THEN "No response from server. Please check your network connection."
    ELSE "An error occurred while processing your request."

\* err.customMessage || err.response?.data?.msg || 'An error occurred'
AuthErrorOf(err) ==
    IF Truthy(CustomMessage(err)) THEN CustomMessage(err)
    ELSE IF Truthy(ResponseMsg(err)) THEN ResponseMsg(err)
    ELSE "An error occurred"

\* endpoint that ignores the active tab
EndpointIgnoringTab(sfp, tab) ==
    IF sfp THEN "/auth/forgot-password" ELSE "/auth/login"

\* endpoint chosen from the mode at submit time
Endpoint(sfp, tab) ==
    IF sfp THEN "/auth/forgot-password"
    ELSE IF tab = "login" THEN "/auth/login" ELSE "/auth/register"

Remove(seq, i) == SubSeq(seq, 1, i - 1) \o SubSeq(seq, i + 1, Len(seq))

\* --------------------------------------------------------------- lifecycle
InitialFormData == [ f \in Fields |-> <<>> ]
DemoUser == "Demo User"
NoUser == "null"

\* useState initial values of AuthPanel
PanelMount ==
    /\ activeTab' = "login"
    /\ showForgotPassword' = FALSE
    /\ formData' = InitialFormData
    /\ errors' = NoErrors
    /\ isLoading' = FALSE
    /\ resetSuccess' = FALSE
    /\ authError' = ""

\* useState initial values of Dashboard
DashboardUnmounted == user' = NoUser /\ loading' = TRUE

Init ==
    /\ activeTab = "login"
    /\ showForgotPassword = FALSE
    /\ formData = InitialFormData
    /\ errors = NoErrors
    /\ isLoading = FALSE
    /\ resetSuccess = FALSE
    /\ authError = ""
    /\ inflight = <<>>
    /\ token = NoToken
    /\ page = "auth"
    /\ user = NoUser
    /\ loading = TRUE

\* ----------------------------------------------------------------- actions
\* tab header buttons: onClick={() => setActiveTab('login' | 'signup')}
SetActiveTab(t) ==
    /\ page = "auth"
    /\ TabHeaderRendered
    /\ activeTab' = t
    /\ UNCHANGED << showForgotPassword, formData, errors, isLoading,
                    resetSuccess, authError, inflight, token, page, dash >>

\* inline toggle that also clears the validation errors
ToggleActiveTabClearingErrors ==
    /\ page = "auth"
    /\ InlineToggleRendered
    /\ activeTab' = IF activeTab = "login" THEN "signup" ELSE "login"
    /\ errors' = NoErrors
    /\ UNCHANGED << showForgotPassword, formData, isLoading,
                    resetSuccess, authError, inflight, token, page, dash >>

\* inline toggle: setActiveTab(activeTab === 'login' ? 'signup' : 'login')
ToggleActiveTab ==
    /\ page = "auth"
    /\ InlineToggleRendered
    /\ activeTab' = IF activeTab = "login" THEN "signup" ELSE "login"
    /\ UNCHANGED << showForgotPassword, formData, errors, isLoading,
                    resetSuccess, authError, inflight, token, page, dash >>

InputsOf(name) ==
    IF name \in { "email", "resetEmail" } THEN EmailInputs \cup { <<>> }
    ELSE IF name = "name" THEN NameInputs \cup { <<>> }
    ELSE PasswordInputs \cup { <<>> }

\* input change that drops the whole error map
handleInputChangeClearingAll(name, value) ==
    /\ page = "auth"
    /\ FieldRendered(name)
    /\ value # formData[name]
    /\ formData' = [ formData EXCEPT ![name] = value ]
    /\ errors' = NoErrors
    /\ UNCHANGED << activeTab, showForgotPassword, isLoading, resetSuccess,
                    authError, inflight, token, page, dash >>

handleInputChange(name, value) ==
    /\ page = "auth"
    /\ FieldRendered(name)
    /\ value # formData[name]
    /\ formData' = [ formData EXCEPT ![name] = value ]
    /\ errors' = IF name \in DOMAIN errors
                 THEN [ f \in DOMAIN errors \ { name } |-> errors[f] ]
                 ELSE errors
    /\ UNCHANGED << activeTab, showForgotPassword, isLoading, resetSuccess,
                    authError, inflight, token, page, dash >>

\* handleSubmit without setAuthError('')
handleSubmitKeepingAuthError ==
    /\ page = "auth"
    /\ SubmitEnabled
    /\ errors' = ValidateForm(formData, showForgotPassword, activeTab)
    /\ IF IsValid(errors')
       THEN /\ Len(inflight) < MaxInflight
            /\ isLoading' = TRUE
            /\ inflight' = Append(inflight,
                   [ endpoint |-> Endpoint(showForgotPassword, activeTab) ])
       ELSE UNCHANGED << isLoading, inflight >>
    /\ UNCHANGED << activeTab, showForgotPassword, formData, resetSuccess,
                    authError, token, page, dash >>

\* handleSubmit with setAuthError('') moved inside if (validateForm())
handleSubmitClearingOnDispatch ==
    /\ page = "auth"
    /\ SubmitEnabled
    /\ errors' = ValidateForm(formData, showForgotPassword, activeTab)
    /\ IF IsValid(errors')
       THEN /\ Len(inflight) < MaxInflight
            /\ authError' = ""
            /\ isLoading' = TRUE
            /\ inflight' = Append(inflight,
                   [ endpoint |-> Endpoint(showForgotPassword, activeTab) ])
       ELSE UNCHANGED << authError, isLoading, inflight >>
    /\ UNCHANGED << activeTab, showForgotPassword, formData, resetSuccess,
                    token, page, dash >>

\* handleSubmit up to the await of api.post
handleSubmit ==
    /\ page = "auth"
    /\ SubmitEnabled
    /\ authError' = ""
    /\ errors' = ValidateForm(formData, showForgotPassword, activeTab)
    /\ IF IsValid(errors')
       THEN /\ Len(inflight) < MaxInflight
            /\ isLoading' = TRUE
            /\ inflight' = Append(inflight,
                   [ endpoint |-> Endpoint(showForgotPassword, activeTab) ])
       ELSE UNCHANGED << isLoading, inflight >>
    /\ UNCHANGED << activeTab, showForgotPassword, formData, resetSuccess,
                    token, page, dash >>

\* forgot-password success applied only if the forgot-password view is still shown
ForgotPasswordSucceedsIfStillShown(i) ==
    /\ page = "auth"
    /\ i \in 1..Len(inflight)
    /\ inflight[i].endpoint = "/auth/forgot-password"
    /\ resetSuccess' = showForgotPassword
    /\ isLoading' = FALSE
    /\ inflight' = Remove(inflight, i)
    /\ UNCHANGED << activeTab, showForgotPassword, formData, errors,
                    authError, token, page, dash >>

\* forgot-password success that also writes the token key
ForgotPasswordSucceedsStoringToken(i) ==
    /\ page = "auth"
    /\ i \in 1..Len(inflight)
    /\ inflight[i].endpoint = "/auth/forgot-password"
    /\ resetSuccess' = TRUE
    /\ isLoading' = FALSE
    /\ inflight' = Remove(inflight, i)
    /\ token' = "jwt1"
    /\ UNCHANGED << activeTab, showForgotPassword, formData, errors,
                    authError, page, dash >>

\* handleSubmit resumed by a 2xx response of the forgot-password request
ForgotPasswordSucceeds(i) ==
    /\ page = "auth"
    /\ i \in 1..Len(inflight)
    /\ inflight[i].endpoint = "/auth/forgot-password"
    /\ resetSuccess' = TRUE
    /\ isLoading' = FALSE
    /\ inflight' = Remove(inflight, i)
    /\ UNCHANGED << activeTab, showForgotPassword, formData, errors,
                    authError, token, page, dash >>

\* handleSubmit resumed by a 2xx response of the login or register request:
\* the token is stored and the document is replaced by /dashboard, whose
\* Dashboard effect finds the token.
LoginOrRegisterSucceeds(i, tok) ==
    /\ page = "auth"
    /\ i \in 1..Len(inflight)
    /\ inflight[i].endpoint \in { "/auth/login", "/auth/register" }
    /\ token' = tok
    /\ page' = "dashboard"
    /\ PanelMount
    /\ inflight' = <<>>
    /\ user' = DemoUser
    /\ loading' = FALSE

\* rejection handled by the catch alone, setIsLoading(false) only on success
RequestFailsWithoutFinally(i, error) ==
    /\ page = "auth"
    /\ i \in 1..Len(inflight)
    /\ authError' = AuthErrorOf(error)
    /\ inflight' = Remove(inflight, i)
    /\ UNCHANGED << activeTab, showForgotPassword, formData, errors,
                    isLoading, resetSuccess, token, page, dash >>

\* handleSubmit resumed by a rejection: catch, then finally
RequestFails(i, error) ==
    /\ page = "auth"
    /\ i \in 1..Len(inflight)
    /\ authError' = AuthErrorOf(error)
    /\ isLoading' = FALSE
    /\ inflight' = Remove(inflight, i)
    /\ UNCHANGED << activeTab, showForgotPassword, formData, errors,
                    resetSuccess, token, page, dash >>

handleForgotPassword ==
    /\ page = "auth"
    /\ ForgotLinkRendered
    /\ showForgotPassword' = TRUE
    /\ errors' = NoErrors
    /\ resetSuccess' = FALSE
    /\ authError' = ""
    /\ UNCHANGED << activeTab, formData, isLoading, inflight, token, page,
                    dash >>

handleBackToLogin ==
    /\ page = "auth"
    /\ ResetSuccessPanelRendered \/ BackLinkRendered
    /\ showForgotPassword' = FALSE
    /\ errors' = NoErrors
    /\ resetSuccess' = FALSE
    /\ authError' = ""
    /\ UNCHANGED << activeTab, formData, isLoading, inflight, token, page,
                    dash >>

\* Dashboard effect without the token test
DashboardMountWithoutTokenTest ==
    /\ page = "auth"
    /\ PanelMount
    /\ inflight' = <<>>
    /\ page' = "dashboard" /\ user' = DemoUser /\ loading' = FALSE
    /\ UNCHANGED token

\* Dashboard mounted by opening /dashboard: its effect reads the token and
\* either redirects to '/' or sets the demo user.
DashboardMount ==
    /\ page = "auth"
    /\ PanelMount
    /\ inflight' = <<>>
    /\ IF token = NoToken
       THEN page' = "auth" /\ DashboardUnmounted
       ELSE page' = "dashboard" /\ user' = DemoUser /\ loading' = FALSE
    /\ UNCHANGED token

handleLogout ==
    /\ page = "dashboard"
    /\ ~loading
    /\ token' = NoToken
    /\ page' = "auth"
    /\ DashboardUnmounted
    /\ UNCHANGED << panel, inflight >>

\* '/' opened from the dashboard without logging out
AuthPanelMount ==
    /\ page = "dashboard"
    /\ page' = "auth"
    /\ DashboardUnmounted
    /\ UNCHANGED << panel, inflight, token >>

Next ==
    \/ \E t \in { "login", "signup" } : SetActiveTab(t)
    \/ ToggleActiveTab
    \/ \E name \in Fields : \E value \in InputsOf(name) :
           handleInputChange(name, value)
    \/ handleSubmit
    \/ \E i \in 1..MaxInflight : ForgotPasswordSucceeds(i)
    \/ \E i \in 1..MaxInflight : \E tok \in Tokens :
           LoginOrRegisterSucceeds(i, tok)
    \/ \E i \in 1..MaxInflight : \E error \in ApiErrors : RequestFails(i, error)
    \/ handleForgotPassword
    \/ handleBackToLogin
    \/ DashboardMount
    \/ handleLogout
    \/ AuthPanelMount

Spec == Init /\ [][Next]_vars

\* A request posted by api.post is settled: a response or a rejection arrives
\* (the axios instance rejects after its 10 s timeout at the latest).
Settle ==
    \/ \E i \in 1..MaxInflight : ForgotPasswordSucceeds(i)
    \/ \E i \in 1..MaxInflight : \E tok \in Tokens :
           LoginOrRegisterSucceeds(i, tok)
    \/ \E i \in 1..MaxInflight : \E error \in ApiErrors : RequestFails(i, error)

FairSpec == Spec /\ WF_vars(Settle)

\* ================================================================== claims
MalformedEmail(s) == Trim(s) = <<>> \/ ~EmailPatternTest(s)

\* C1: a submit whose email (login/signup mode) or resetEmail (forgot-password
\* mode) is blank or fails the email pattern sets an error on that field and
\* dispatches no request.
C1_MalformedEmailBlocked ==
    [][ handleSubmit =>
          /\ (~showForgotPassword /\ MalformedEmail(formData["email"])
                => "email" \in DOMAIN errors' /\ inflight' = inflight)
          /\ (showForgotPassword /\ MalformedEmail(formData["resetEmail"])
                => "resetEmail" \in DOMAIN errors' /\ inflight' = inflight)
      ]_vars

\* forgot-password submitted with "bad" (no "@"): error shown, nothing sent
C1_Witness ==
    /\ showForgotPassword
    /\ formData["resetEmail"] = <<"b", "a", "d">>
    /\ "resetEmail" \in DOMAIN errors
    /\ errors["resetEmail"] = "Email is invalid"
    /\ inflight = <<>>
    /\ ~isLoading

\* C2: at most one request of the panel is outstanding at any time, and no
\* step taken while isLoading is true adds an outbound call.
C2_SingleInflight ==
    [][ /\ Len(inflight') <= 1
        /\ (isLoading => Len(inflight') <= Len(inflight)) ]_vars

\* a request is outstanding and the submit control is disabled
C2_Witness == isLoading /\ Len(inflight) = 1 /\ FormRendered /\ ~SubmitEnabled

\* C3: a successful login/register response stores the returned token under
\* 'token'; a failed response sets a non-empty authError and stores nothing;
\* the key is written by the panel only by a successful login or register
\* response.
C3_TokenOnlyOnSuccess ==
    [][ /\ \A i \in 1..MaxInflight : \A tok \in Tokens :
               LoginOrRegisterSucceeds(i, tok) => token' = tok
        /\ \A i \in 1..MaxInflight : \A error \in ApiErrors :
               RequestFails(i, error) => authError' # "" /\ token' = token
        /\ (token' # token /\ token' # NoToken =>
               /\ inflight # <<>>
               /\ \E i \in 1..Len(inflight) :
                      inflight[i].endpoint \in { "/auth/login", "/auth/register" }
               /\ page' = "dashboard")
      ]_vars

\* a token stored by an earlier success, then a login rejected by the server
C3_Witness ==
    /\ page = "auth"
    /\ token \in Tokens
    /\ ~showForgotPassword
    /\ authError = "Invalid credentials"
    /\ ~isLoading

\* C4: provided every dispatched request is settled, isLoading = TRUE is
\* always followed by isLoading = FALSE.
C4_LoadingEventuallyFalse == isLoading ~> ~isLoading

\* a submission that timed out and left the form enabled again
C4_Witness ==
    /\ authError = "Request timed out. Please try again."
    /\ ~isLoading
    /\ inflight = <<>>
    /\ SubmitEnabled

\* C5: the reset-success panel is never rendered together with the login /
\* signup tab header or heading, and the login/signup inputs are never
\* rendered together with forgot-password content.
C5_ExactlyOneView ==
    /\ ResetSuccessPanelRendered =>
           ~TabHeaderRendered /\ ~LoginSignupHeadingRendered
    /\ (FieldRendered("email") \/ FieldRendered("name")) =>
           ~ResetHeadingRendered /\ ~FieldRendered("resetEmail")

\* C6 as stated: showForgotPassword and resetSuccess are never both true.
C6_FlagsExclusive == ~(showForgotPassword /\ resetSuccess)

\* C6 amended: resetSuccess excludes the forgot-password form, not the flag:
\* while resetSuccess is true the resetEmail form is not rendered, isLoading
\* is false and no request is outstanding.
C6_ResetSuccessExcludesForm ==
    resetSuccess =>
        /\ ~FieldRendered("resetEmail")
        /\ ~SubmitEnabled
        /\ ~isLoading
        /\ inflight = <<>>

\* both flags true: the reset-success display after a successful request
C6_Witness == showForgotPassword /\ resetSuccess /\ ~isLoading

\* C7: resetSuccess becomes true only from the forgot-password view and only
\* by a successful forgot-password response.
C7_ResetSuccessOnlyFromForgot ==
    [][ (~resetSuccess /\ resetSuccess') =>
            /\ showForgotPassword
            /\ \E i \in 1..MaxInflight : ForgotPasswordSucceeds(i) ]_vars

\* C8: Back to Login always yields the Login form.
C8_BackLeadsToLogin ==
    [][ handleBackToLogin =>
            /\ activeTab' = "login"
            /\ ~showForgotPassword'
            /\ ~resetSuccess' ]_vars

\* C9: a signup submit with password # confirmPassword sets
\* errors.confirmPassword = 'Passwords do not match' and dispatches nothing.
C9_MismatchBlocked ==
    [][ ( /\ handleSubmit
          /\ ~showForgotPassword
          /\ activeTab = "signup"
          /\ formData["password"] # formData["confirmPassword"] )
        => /\ "confirmPassword" \in DOMAIN errors'
           /\ errors'["confirmPassword"] = "Passwords do not match"
           /\ inflight' = inflight
           /\ isLoading' = isLoading ]_vars

\* every other field valid, two 6-character passwords differing in one character
C9_Witness ==
    /\ activeTab = "signup"
    /\ ~showForgotPassword
    /\ formData["password"] # formData["confirmPassword"]
    /\ Len(formData["password"]) = Len(formData["confirmPassword"])
    /\ DOMAIN errors = { "confirmPassword" }
    /\ inflight = <<>>

GenericMessages ==
    { "Server error occurred.",
      "No response from server. Please check your network connection.",
      "An error occurred while processing your request.",
      "An error occurred" }

\* C10: the message of a failed request follows the priority
\* network-unreachable > timeout > server msg > generic, and is never empty.
C10_ErrorPriority ==
    [][ \A i \in 1..MaxInflight : \A error \in ApiErrors :
          RequestFails(i, error) =>
            /\ authError' # ""
            /\ IF error.code = "ERR_NETWORK"
               THEN authError' =
                    "Unable to connect to the server. Please make sure the backend is running."
               ELSE IF error.code = "ECONNABORTED"
               THEN authError' = "Request timed out. Please try again."
               ELSE IF error.response \in ServerMsgs
               THEN authError' = error.response
               ELSE authError' \in GenericMessages
      ]_vars

\* a connection failure surfaced, loading reset
C10_Witness ==
    /\ authError =
       "Unable to connect to the server. Please make sure the backend is running."
    /\ ~isLoading

\* The fields that fail the rules of the mode the panel is in.
FailingFields ==
    IF showForgotPassword
    THEN { f \in { "resetEmail" } : MalformedEmail(formData["resetEmail"]) }
    ELSE { f \in { "email" } : MalformedEmail(formData["email"]) }
         \cup { f \in { "password" } : Len(formData["password"]) < 6 }
         \cup { f \in { "name" } :
                  activeTab = "signup" /\ Trim(formData["name"]) = <<>> }
         \cup { f \in { "confirmPassword" } :
                  /\ activeTab = "signup"
                  /\ formData["confirmPassword"] # formData["password"] }

\* The endpoint of the mode the panel is in.
ModeEndpoint ==
    CASE showForgotPassword -> "/auth/forgot-password"
      [] ~showForgotPassword /\ activeTab = "login" -> "/auth/login"
      [] ~showForgotPassword /\ activeTab = "signup" -> "/auth/register"

\* C11: after a submit the error map has exactly the fields failing the rules
\* of the current mode, and a request is dispatched iff that map is empty.
C11_ErrorsExactlyFailingFields ==
    [][ handleSubmit =>
          /\ DOMAIN errors' = FailingFields
          /\ (inflight' # inflight <=> DOMAIN errors' = {}) ]_vars

\* login submit: malformed email flagged, 6-character password accepted
C11_Witness ==
    /\ ~showForgotPassword
    /\ activeTab = "login"
    /\ formData["email"] = <<"a", "@", "b">>
    /\ Len(formData["password"]) = 6
    /\ DOMAIN errors = { "email" }
    /\ inflight = <<>>

\* C12: a valid submit dispatches exactly one call, to the endpoint of the
\* mode at submit time; no other step dispatches a call, and a settled
\* request is never posted again.
C12_OneCallPerValidSubmit ==
    [][ /\ handleSubmit =>
              IF FailingFields = {}
              THEN inflight' = Append(inflight, [ endpoint |-> ModeEndpoint ])
              ELSE inflight' = inflight
        /\ ~handleSubmit =>
              (inflight' = inflight \/ Len(inflight') < Len(inflight))
        /\ \A i \in 1..MaxInflight : \A error \in ApiErrors :
              RequestFails(i, error) => Len(inflight') = Len(inflight) - 1
      ]_vars

\* a register request dispatched from the signup tab
C12_Witness ==
    /\ activeTab = "signup"
    /\ ~showForgotPassword
    /\ isLoading
    /\ inflight = << [ endpoint |-> "/auth/register" ] >>

\* C13: in reset mode a submit validates resetEmail only: no other key enters
\* the error map, and a well-formed resetEmail dispatches the forgot-password
\* request whatever the other fields contain.
C13_ResetValidatesResetEmailOnly ==
    [][ (handleSubmit /\ showForgotPassword) =>
          /\ DOMAIN errors' \subseteq { "resetEmail" }
          /\ (~MalformedEmail(formData["resetEmail"]) =>
                /\ errors' = NoErrors
                /\ inflight' = Append(inflight,
                       [ endpoint |-> "/auth/forgot-password" ])) ]_vars

\* forgot-password request sent while email is malformed and password short
C13_Witness ==
    /\ showForgotPassword
    /\ isLoading
    /\ inflight = << [ endpoint |-> "/auth/forgot-password" ] >>
    /\ MalformedEmail(formData["email"])
    /\ Len(formData["password"]) < 6
    /\ errors = NoErrors

\* C14: editing field f removes f's entry from the error map, sets
\* formData[f], and leaves every other error entry, every other field,
\* authError, isLoading and the mode flags unchanged.
C14_EditClearsOwnErrorOnly ==
    [][ \A name \in Fields : \A value \in InputsOf(name) :
          handleInputChange(name, value) =>
            /\ formData'[name] = value
            /\ \A f \in Fields \ { name } : formData'[f] = formData[f]
            /\ name \notin DOMAIN errors'
            /\ DOMAIN errors' = DOMAIN errors \ { name }
            /\ \A f \in DOMAIN errors' : errors'[f] = errors[f]
            /\ UNCHANGED << authError, isLoading, activeTab,
                            showForgotPassword, resetSuccess >> ]_vars

\* the email entry gone after an edit to a still malformed value, the
\* password entry kept
C14_Witness ==
    /\ ~showForgotPassword
    /\ activeTab = "login"
    /\ formData["email"] = <<"b", "a", "d">>
    /\ formData["password"] = <<>>
    /\ DOMAIN errors = { "password" }

\* C15: a user is set only with a token in local storage and the dashboard
\* mounted; a mount without token redirects to '/' and sets no user; Logout
\* removes the token and returns to '/'.
C15_TokenGatesDashboard ==
    [][ /\ (user' # NoUser => token' # NoToken /\ page' = "dashboard")
        /\ (page' = "dashboard" => token' # NoToken)
        /\ ((DashboardMount /\ token = NoToken) =>
               page' = "auth" /\ user' = NoUser /\ token' = NoToken)
        /\ (handleLogout =>
               token' = NoToken /\ page' = "auth" /\ user' = NoUser)
      ]_vars

\* the dashboard showing the user with a token stored
C15_Witness ==
    /\ page = "dashboard"
    /\ token \in Tokens
    /\ user = DemoUser
    /\ ~loading

\* C16: a response takes effect by the mode captured at dispatch whatever the
\* view at arrival, and navigation does not cancel the request.
C16_ResponseAppliedByDispatchMode ==
    [][ /\ \A i \in 1..MaxInflight :
              ForgotPasswordSucceeds(i) =>
                  resetSuccess' /\ UNCHANGED showForgotPassword
        /\ \A i \in 1..MaxInflight : \A error \in ApiErrors :
              RequestFails(i, error) =>
                  authError' # "" /\ UNCHANGED showForgotPassword
        /\ (handleBackToLogin \/ handleForgotPassword \/ ToggleActiveTab
              \/ \E t \in { "login", "signup" } : SetActiveTab(t)) =>
              UNCHANGED << inflight, isLoading >>
      ]_vars

\* reset-success set after Back to Login had left the forgot-password view
C16_Witness == resetSuccess /\ ~showForgotPassword /\ ~isLoading

\* C17: showForgotPassword implies activeTab = 'login'.
C17_ForgotOnlyOnLoginTab == showForgotPassword => activeTab = "login"

\* forgot-password view entered after a visit to the signup tab (the name
\* input exists only there)
C17_Witness ==
    /\ showForgotPassword
    /\ activeTab = "login"
    /\ formData["name"] # <<>>

\* C18: isLoading implies authError is empty.
C18_NoAuthErrorWhileLoading == isLoading => authError = ""

\* a login request outstanding, no auth error shown
C18_Witness ==
    /\ isLoading
    /\ inflight = << [ endpoint |-> "/auth/login" ] >>
    /\ authError = ""

\* C19: a tab switch changes activeTab only; the forgot-password and back
\* actions reset errors, authError and resetSuccess and leave formData alone.
C19_TabSwitchFrame ==
    [][ /\ (ToggleActiveTab \/ \E t \in { "login", "signup" } : SetActiveTab(t))
              => UNCHANGED << formData, errors, authError, isLoading,
                              showForgotPassword, resetSuccess >>
        /\ (handleForgotPassword \/ handleBackToLogin) =>
              /\ errors' = NoErrors
              /\ authError' = ""
              /\ ~resetSuccess'
              /\ UNCHANGED formData
      ]_vars

\* errors of a login validation still in state on the signup tab: the
\* confirmPassword mismatch was not evaluated
C19_Witness ==
    /\ activeTab = "signup"
    /\ ~showForgotPassword
    /\ formData["password"] = <<>>
    /\ formData["confirmPassword"] = <<>>
    /\ formData["name"] = <<>>
    /\ DOMAIN errors = { "email", "password" }

\* C20: a submit blocked by validation leaves authError empty, isLoading
\* false, dispatches nothing and does not touch local storage.
C20_BlockedSubmitClearsAuthError ==
    [][ (handleSubmit /\ FailingFields # {}) =>
          /\ authError' = ""
          /\ ~isLoading /\ ~isLoading'
          /\ inflight' = inflight
          /\ token' = token ]_vars

\* a blocked submit with a token in local storage
C20_Witness ==
    /\ page = "auth"
    /\ DOMAIN errors # {}
    /\ authError = ""
    /\ ~isLoading
    /\ inflight = <<>>
    /\ token \in Tokens

====
